---- MODULE Spec2Model ----
(***************************************************************************)
(* StockIQ analytics engine (backend/lambdas/analytics_engine/handler.py)  *)
(* and the workflow updates of the API (package/handler.py).               *)
(*                                                                         *)
(* Numeric encoding.  PostgreSQL NUMERIC values are kept as scaled         *)
(* integers: days of inventory, reorder point, safety stock and maximum    *)
(* stock in hundredths (ROUND(x, 2)), monthly rotation in ten-thousandths  *)
(* (ROUND(x, 4)).  The daily velocity venta_30d / 30.0 is kept in units of *)
(* 1/30, i.e. as the integer venta_30d.  Quantities are whole units.       *)
(* NULL is the string NULL for text columns and SinValor for numbers.      *)
(***************************************************************************)
EXTENDS Integers, Sequences, FiniteSets, Bags, TLC

\* ------------------------------------------------------------------ bounds
MaxStock == 8
MaxVenta30 == 30
MaxRuns == 2
MaxCambios == 1
MaxFallas == 1

\* ------------------------------------------------------- program constants
UMBRAL_CRITICO == 3
UMBRAL_BAJO == 7
UMBRAL_MEDIO == 15
\* UMBRAL_SOBRE = 1.5, kept as a percentage
UMBRAL_SOBRE_PCT == 150
UMBRAL_BAJA_ROTACION_90D == 3
\* UMBRAL_ROTACION_MENSUAL = 0.5, in ten-thousandths
UMBRAL_ROTACION_MENSUAL == 5000
\* COALESCE(m.dias_cobertura_stock, 30), COALESCE(m.lead_time_a_cedi, 15)
COBERTURA_DEFECTO == 30
LEAD_TIME_DEFECTO == 15
\* ELSE 9999 (no sales = infinite inventory), in hundredths
DIAS_SIN_VENTA == 999900

NULL == "NULL"
SinValor == -1
\* outcome of a division whose divisor is zero (the statement raises)
ErrorDivision == -2

\* ---------------------------------------------------------------- helpers
\* ROUND(a / b) for a >= 0, b > 0: half away from zero
RoundDiv(a, b) == (2 * a + b) \div (2 * b)

\* ROUND(a / b) for any sign of a, b > 0
RoundDivSigned(a, b) == IF a >= 0 THEN RoundDiv(a, b) ELSE 0 - RoundDiv(0 - a, b)

\* a / b as the database evaluates it: a zero divisor raises
SqlDivRound(a, b) == IF b = 0 THEN ErrorDivision ELSE RoundDiv(a, b)

Coalesce(x, d) == IF x = SinValor THEN d ELSE x

Max2(a, b) == IF a >= b THEN a ELSE b
Min2(a, b) == IF a <= b THEN a ELSE b

\* --------------------------------------------- metric row of one (b, r) pair
\* CASE WHEN venta_diaria_promedio > 0 THEN ROUND(stock / venta_diaria, 2)
\*      ELSE 9999 END            (hundredths; velocity = venta_30d / 30)
DiasInventarioSinGuarda(stock, venta_30d) == SqlDivRound(stock * 3000, venta_30d)

DiasInventario(stock, venta_30d) ==
    IF venta_30d > 0 THEN SqlDivRound(stock * 3000, venta_30d) ELSE DIAS_SIN_VENTA

\* CASE WHEN stock_actual > 0 THEN ROUND(venta_30d / stock_actual, 4) ELSE 0
RotacionMensual(stock, venta_30d) ==
    IF stock > 0 THEN SqlDivRound(venta_30d * 10000, stock) ELSE 0

\* ROUND(venta_diaria_promedio * lead_time * 1.2, 2) = venta_30d*lead*0.04
PuntoReorden(venta_30d, lead_time) == venta_30d * lead_time * 4

\* ROUND(venta_diaria_promedio * 7, 2)
StockSeguridad(venta_30d) == RoundDiv(venta_30d * 700, 30)

\* ROUND(venta_diaria_promedio * dias_cobertura_objetivo, 2)
StockMaximo(venta_30d, dias_objetivo) == RoundDiv(venta_30d * dias_objetivo * 100, 30)

\* dias_inv = float(r['dias_inventario']) if r['dias_inventario'] else 9999
DiasInvPython(dias_inventario) ==
    IF dias_inventario = 0 \/ dias_inventario = SinValor
    THEN DIAS_SIN_VENTA ELSE dias_inventario

\* dias_objetivo = float(r['dias_cobertura_objetivo']) if ... else 30
DiasObjetivoPython(dias_cobertura_objetivo) ==
    IF dias_cobertura_objetivo = 0 \/ dias_cobertura_objetivo = SinValor
    THEN COBERTURA_DEFECTO ELSE dias_cobertura_objetivo

\* the if/elif chain on (dias_inv, dias_objetivo); dias_inv in hundredths
CadenaEstadoLaxa(dias_inv, dias_objetivo) ==
    IF dias_inv <= UMBRAL_CRITICO * 100 THEN "CRITICO"
    ELSE IF dias_inv <= UMBRAL_BAJO * 100 THEN "BAJO"
    ELSE IF dias_inv <= UMBRAL_MEDIO * 100 THEN "MEDIO"
    ELSE IF dias_inv > dias_objetivo * UMBRAL_SOBRE_PCT THEN "EXCESO"
    ELSE IF dias_inv > dias_objetivo * 100 THEN "SOBRE"
    ELSE "NORMAL"

CadenaEstadoSobreLaxa(dias_inv, dias_objetivo) ==
    IF dias_inv < UMBRAL_CRITICO * 100 THEN "CRITICO"
    ELSE IF dias_inv < UMBRAL_BAJO * 100 THEN "BAJO"
    ELSE IF dias_inv < UMBRAL_MEDIO * 100 THEN "MEDIO"
    ELSE IF dias_inv > dias_objetivo * UMBRAL_SOBRE_PCT THEN "EXCESO"
    ELSE IF dias_inv >= dias_objetivo * 100 THEN "SOBRE"
    ELSE "NORMAL"

CadenaEstado(dias_inv, dias_objetivo) ==
    IF dias_inv < UMBRAL_CRITICO * 100 THEN "CRITICO"
    ELSE IF dias_inv < UMBRAL_BAJO * 100 THEN "BAJO"
    ELSE IF dias_inv < UMBRAL_MEDIO * 100 THEN "MEDIO"
    ELSE IF dias_inv > dias_objetivo * UMBRAL_SOBRE_PCT THEN "EXCESO"
    ELSE IF dias_inv > dias_objetivo * 100 THEN "SOBRE"
    ELSE "NORMAL"

\* estado for the values the query returned
EstadoStock(dias_inventario, dias_cobertura_objetivo) ==
    CadenaEstado(DiasInvPython(dias_inventario),
                 DiasObjetivoPython(dias_cobertura_objetivo))

\* One result row of the metric query plus the Python classification.
\* m is the brand row joined to the product (all fields NULL without brand).
FilaMetrica(fecha_calculo, b, r, stock, v7, v30, v90, m) ==
    LET objetivo == Coalesce(m.dias_cobertura_stock, COBERTURA_DEFECTO)
        lead == Coalesce(m.lead_time_a_cedi, LEAD_TIME_DEFECTO)
        dias == DiasInventario(stock, v30)
        estado == EstadoStock(dias, objetivo)
    IN [fecha_calculo |-> fecha_calculo,
        referencia |-> r,
        bodega_codigo |-> b,
        stock_actual |-> stock,
        venta_ultimos_7_dias |-> v7,
        venta_ultimos_30_dias |-> v30,
        venta_ultimos_90_dias |-> v90,
        venta_diaria_x30 |-> v30,
        dias_inventario |-> dias,
        rotacion_mensual |-> RotacionMensual(stock, v30),
        punto_reorden |-> PuntoReorden(v30, lead),
        stock_seguridad |-> StockSeguridad(v30),
        stock_maximo |-> StockMaximo(v30, objetivo),
        dias_cobertura_objetivo |-> objetivo,
        estado_stock |-> estado,
        requiere_traslado |-> estado \in {"CRITICO", "BAJO", "EXCESO"},
        requiere_compra |-> estado \in {"CRITICO", "BAJO"}]

\* a row whose computation divided by zero: the query raises
FilaConError(f) ==
    f.dias_inventario = ErrorDivision \/ f.rotacion_mensual = ErrorDivision

\* ------------------------------------------------------------ master data
\* almacenes: w1, w2 sales floors (tipo = 'Venta'), c1 a distribution center
Bodegas == {"w1", "w2", "c1"}
TipoAlmacen == [b \in Bodegas |-> IF b = "c1" THEN "CEDI" ELSE "Venta"]

\* productos: p1 belongs to brand m1, p2 has marca_codigo NULL
Refs == {"p1", "p2"}

\* the brand row a LEFT JOIN yields for a product without brand
SinMarca == [categoria |-> NULL, clasificacion |-> NULL,
             dias_cobertura_stock |-> SinValor, lead_time_a_cedi |-> SinValor]

Categorias == {"PRINCIPAL", "SECUNDARIA", NULL}
Clasificaciones == {"A", "B", "D", NULL}

\* calculation dates a caller passes in event['fecha'], and the window sizes
Fechas == {100, 101}
HoyInicial == 100

Estados == {"CRITICO", "BAJO", "MEDIO", "EXCESO", "SOBRE", "NORMAL"}

VARIABLES
    hoy,         \* wall-clock date: CURRENT_DATE, datetime.now(), NOW()
    marca,       \* the row of brand m1 in marcas
    inventario,  \* inventario_actual.cantidad per <<bodega, referencia>>
    ventas,      \* the sales facts
    db,          \* committed tables
    tx,          \* the tables as the handler's open connection sees them
    pc,          \* position of the engine handler
    fecha,       \* fecha_calculo of the run in progress
    cuenta,      \* values returned by the stages of the run in progress
    resultado,   \* what the last handler invocation returned
    historial,   \* tables after the latest consecutive successful runs
    nRuns,       \* handler invocations so far
    nCambios,    \* changes made outside the engine so far
    nFallas,     \* invocations that raised so far
    entrada,     \* single-row check: the inputs of one (bodega, referencia)
    fila,        \* single-row check: the metric row written for entrada
    alertasFila, \* single-row check: the alerts generated from fila
    pcFila,      \* single-row check: position
    respuesta    \* what the last get_compras request returned

vars == <<hoy, marca, inventario, ventas, db, tx, pc, fecha, cuenta,
          resultado, historial, nRuns, nCambios, nFallas,
          entrada, fila, alertasFila, pcFila, respuesta>>

sistema == <<hoy, inventario, ventas, db, tx, pc, fecha, cuenta,
             resultado, historial, nRuns, nCambios, nFallas, respuesta>>

\* productos.marca_codigo
CodigoMarca(r) == IF r = "p1" THEN "m1" ELSE NULL

\* the brand joined to a product: LEFT JOIN marcas m ON m.codigo = p.marca_codigo
MarcaDe(r) == IF r = "p1" THEN marca ELSE SinMarca

RECURSIVE SumaCantidad(_)
SumaCantidad(S) ==
    IF S = {} THEN 0
    ELSE LET v == CHOOSE x \in S : TRUE
         IN v.cantidad + SumaCantidad(S \ {v})

\* ventas_periodo: sales of (r, b) dated within the trailing window, joined to
\* almacenes with tipo = 'Venta'.  The window is anchored at CURRENT_DATE.
VentaPeriodo(r, b, dias) ==
    IF TipoAlmacen[b] = "Venta"
    THEN SumaCantidad({v \in ventas : v.referencia = r /\ v.bodega_codigo = b
                                      /\ v.fecha >= hoy - dias})
    ELSE 0

\* the rows fetched by the metric query: WHERE i.cantidad > 0
ResultadosMetricas(fecha_calculo) ==
    {FilaMetrica(fecha_calculo, k[1], k[2], inventario[k],
                 VentaPeriodo(k[2], k[1], 7), VentaPeriodo(k[2], k[1], 30),
                 VentaPeriodo(k[2], k[1], 90), MarcaDe(k[2])) :
        k \in {x \in Bodegas \X Refs : inventario[x] > 0}}

ClaveMetrica(m) == <<m.fecha_calculo, m.referencia, m.bodega_codigo>>

\* INSERT ... ON CONFLICT (fecha_calculo, referencia, bodega_codigo) DO UPDATE
UpsertMetricasSinActualizar(tabla, nuevas) ==
    tabla \cup {n \in nuevas : \A m \in tabla : ClaveMetrica(n) # ClaveMetrica(m)}

UpsertMetricas(tabla, nuevas) ==
    {m \in tabla : \A n \in nuevas : ClaveMetrica(n) # ClaveMetrica(m)} \cup nuevas

\* --------------------------------------------------------------- alertas
\* fecha_generacion is not in the INSERT column list: the column default
\* (the generation timestamp) supplies it
FechaGeneracion == hoy

\* DELETE FROM <tabla> WHERE DATE(fecha_generacion) = %s AND estado = 'PENDIENTE'
BorrarTodoElDia(tabla, fecha_calculo) ==
    LET quedan == {a \in DOMAIN tabla : ~(a.fecha_generacion = fecha_calculo)}
    IN [a \in quedan |-> tabla[a]]

BorrarPendientes(tabla, fecha_calculo) ==
    LET quedan == {a \in DOMAIN tabla :
                     ~(a.fecha_generacion = fecha_calculo /\ a.estado = "PENDIENTE")}
    IN [a \in quedan |-> tabla[a]]

FilaAlerta(tipo, nivel, m) ==
    [tipo_alerta |-> tipo, nivel |-> nivel,
     referencia |-> m.referencia, bodega_codigo |-> m.bodega_codigo,
     stock_actual |-> m.stock_actual, dias_inventario |-> m.dias_inventario,
     venta_diaria_x30 |-> m.venta_diaria_x30,
     marca_categoria |-> MarcaDe(m.referencia).categoria,
     marca_clasificacion |-> MarcaDe(m.referencia).clasificacion,
     fecha_generacion |-> FechaGeneracion, estado |-> "PENDIENTE",
     \* not a column: the calculation date of the run that inserted the row
     run_fecha |-> m.fecha_calculo]

TipoStockBajo(dias_inventario) ==
    IF dias_inventario < UMBRAL_CRITICO * 100 THEN "STOCK_CRITICO"
    ELSE IF dias_inventario < UMBRAL_BAJO * 100 THEN "STOCK_BAJO"
    ELSE "STOCK_MEDIO"

NivelStockBajo(dias_inventario) ==
    IF dias_inventario < UMBRAL_CRITICO * 100 THEN "CRITICO"
    ELSE IF dias_inventario < UMBRAL_BAJO * 100 THEN "ALTO"
    ELSE "MEDIO"

\* query_stock_bajo: WHERE of the INSERT ... SELECT
CumpleStockBajoSinUmbral(m, fecha_calculo) ==
    /\ TipoAlmacen[m.bodega_codigo] = "Venta"
    /\ m.fecha_calculo = fecha_calculo
    /\ m.venta_diaria_x30 > 0

CumpleStockBajo(m, fecha_calculo) ==
    /\ TipoAlmacen[m.bodega_codigo] = "Venta"
    /\ m.fecha_calculo = fecha_calculo
    /\ m.dias_inventario < UMBRAL_MEDIO * 100
    /\ m.venta_diaria_x30 > 0

AlertasStockBajo(metricas, fecha_calculo) ==
    {FilaAlerta(TipoStockBajo(m.dias_inventario), NivelStockBajo(m.dias_inventario), m) :
        m \in {x \in metricas : CumpleStockBajo(x, fecha_calculo)}}

\* query_sobreinventario
CumpleSobreinventarioSinVelocidad(m, fecha_calculo) ==
    /\ m.fecha_calculo = fecha_calculo
    /\ m.dias_inventario >
         Coalesce(MarcaDe(m.referencia).dias_cobertura_stock, COBERTURA_DEFECTO)
           * UMBRAL_SOBRE_PCT

CumpleSobreinventario(m, fecha_calculo) ==
    /\ m.fecha_calculo = fecha_calculo
    /\ m.dias_inventario >
         Coalesce(MarcaDe(m.referencia).dias_cobertura_stock, COBERTURA_DEFECTO)
           * UMBRAL_SOBRE_PCT
    /\ m.venta_diaria_x30 > 0

\* CASE WHEN m.dias_inventario > m.stock_maximo * 2 THEN 'ALTO' ELSE 'MEDIO'
NivelSobreinventario(m) ==
    IF m.dias_inventario > m.stock_maximo * 2 THEN "ALTO" ELSE "MEDIO"

AlertasSobreinventario(metricas, fecha_calculo) ==
    {FilaAlerta("SOBREINVENTARIO", NivelSobreinventario(m), m) :
        m \in {x \in metricas : CumpleSobreinventario(x, fecha_calculo)}}

\* query_baja_rotacion.  ma.clasificacion != 'D' is NULL, hence not true,
\* when the product has no brand or the brand has no classification.
CumpleBajaRotacionConD(m, fecha_calculo) ==
    /\ m.fecha_calculo = fecha_calculo
    /\ m.stock_actual > 0
    /\ (m.venta_ultimos_90_dias < UMBRAL_BAJA_ROTACION_90D
        \/ m.rotacion_mensual < UMBRAL_ROTACION_MENSUAL)
    /\ MarcaDe(m.referencia).clasificacion # NULL

CumpleBajaRotacion(m, fecha_calculo) ==
    /\ m.fecha_calculo = fecha_calculo
    /\ m.stock_actual > 0
    /\ (m.venta_ultimos_90_dias < UMBRAL_BAJA_ROTACION_90D
        \/ m.rotacion_mensual < UMBRAL_ROTACION_MENSUAL)
    /\ MarcaDe(m.referencia).clasificacion # NULL
    /\ MarcaDe(m.referencia).clasificacion # "D"

NivelBajaRotacion(m) == IF m.venta_ultimos_90_dias = 0 THEN "ALTO" ELSE "MEDIO"

AlertasBajaRotacion(metricas, fecha_calculo) ==
    {FilaAlerta("BAJA_ROTACION", NivelBajaRotacion(m), m) :
        m \in {x \in metricas : CumpleBajaRotacion(x, fecha_calculo)}}

\* the rows the three INSERT ... SELECT statements add
AlertasGeneradas(metricas, fecha_calculo) ==
    AlertasStockBajo(metricas, fecha_calculo)
      \cup AlertasSobreinventario(metricas, fecha_calculo)
      \cup AlertasBajaRotacion(metricas, fecha_calculo)

\* ------------------------------------------------ recomendaciones_traslado
\* necesidades CTE
EsNecesidad(m, fecha_calculo) ==
    /\ TipoAlmacen[m.bodega_codigo] = "Venta"
    /\ m.fecha_calculo = fecha_calculo
    /\ m.dias_inventario < UMBRAL_MEDIO * 100
    /\ m.venta_diaria_x30 > 0

\* GREATEST(m.punto_reorden - m.stock_actual, 0), hundredths
CantidadNecesaria(m) == Max2(m.punto_reorden - m.stock_actual * 100, 0)

\* excesos CTE
EsExceso(m, fecha_calculo) ==
    /\ m.fecha_calculo = fecha_calculo
    /\ m.stock_actual * 100 > m.stock_maximo
    /\ m.stock_actual > 0

\* GREATEST(m.stock_actual - m.stock_maximo, 0), hundredths
CantidadDisponible(m) == Max2(m.stock_actual * 100 - m.stock_maximo, 0)

\* LEAST(e.cantidad_disponible, n.cantidad_necesaria)
CantidadSugeridaSoloDisponible(e, n) == CantidadDisponible(e)

CantidadSugerida(e, n) == Min2(CantidadDisponible(e), CantidadNecesaria(n))

PrioridadTrasladoSinCategoria(n) ==
    IF n.dias_inventario < UMBRAL_CRITICO * 100 THEN "URGENTE"
    ELSE IF n.dias_inventario < UMBRAL_BAJO * 100 THEN "ALTA"
    ELSE IF n.dias_inventario < UMBRAL_MEDIO * 100 THEN "MEDIA"
    ELSE "BAJA"

PrioridadTraslado(n) ==
    LET ma == MarcaDe(n.referencia)
    IN IF n.dias_inventario < UMBRAL_CRITICO * 100 /\ ma.categoria = "PRINCIPAL"
          /\ ma.clasificacion = "A" THEN "URGENTE"
       ELSE IF n.dias_inventario < UMBRAL_BAJO * 100 /\ ma.categoria = "PRINCIPAL"
       THEN "ALTA"
       ELSE IF n.dias_inventario < UMBRAL_MEDIO * 100 THEN "MEDIA"
       ELSE "BAJA"

FilaTraslado(e, n) ==
    [referencia |-> n.referencia,
     bodega_origen |-> e.bodega_codigo,
     bodega_destino |-> n.bodega_codigo,
     cantidad_sugerida |-> CantidadSugerida(e, n),
     dias_inv_origen |-> e.dias_inventario,
     dias_inv_destino |-> n.dias_inventario,
     marca_categoria |-> MarcaDe(n.referencia).categoria,
     marca_clasificacion |-> MarcaDe(n.referencia).clasificacion,
     prioridad |-> PrioridadTraslado(n),
     fecha_generacion |-> FechaGeneracion, estado |-> "PENDIENTE",
     \* not a column: the calculation date of the run that inserted the row
     run_fecha |-> n.fecha_calculo]

\* a matcher that keeps a ledger on the destination side: what the other
\* sources of the product can give is taken off the quantity still needed
TrasladosConLibro(metricas, fecha_calculo) ==
    LET Otros(e, n) == {x \in metricas : /\ EsExceso(x, fecha_calculo)
                                          /\ x.referencia = n.referencia
                                          /\ x.bodega_codigo # n.bodega_codigo
                                          /\ x.bodega_codigo # e.bodega_codigo}
        Resto(e, n) == IF Otros(e, n) = {} THEN CantidadNecesaria(n) ELSE 0
    IN {[FilaTraslado(par[1], par[2]) EXCEPT
            !.cantidad_sugerida = Min2(CantidadDisponible(par[1]), Resto(par[1], par[2]))] :
          par \in {x \in metricas \X metricas :
                     /\ EsExceso(x[1], fecha_calculo)
                     /\ EsNecesidad(x[2], fecha_calculo)
                     /\ x[1].referencia = x[2].referencia
                     /\ x[1].bodega_codigo # x[2].bodega_codigo
                     /\ Min2(CantidadDisponible(x[1]), Resto(x[1], x[2])) > 0}}

\* FROM necesidades n JOIN excesos e ON e.referencia = n.referencia
\*   AND e.bodega_codigo != n.bodega_codigo WHERE LEAST(...) > 0
TrasladosCalculados(metricas, fecha_calculo) ==
    {FilaTraslado(par[1], par[2]) :
        par \in {x \in metricas \X metricas :
                   /\ EsExceso(x[1], fecha_calculo)
                   /\ EsNecesidad(x[2], fecha_calculo)
                   /\ x[1].referencia = x[2].referencia
                   /\ x[1].bodega_codigo # x[2].bodega_codigo
                   /\ CantidadSugerida(x[1], x[2]) > 0}}

\* -------------------------------------------------- recomendaciones_compra
RECURSIVE SumaStock(_, _)
SumaStock(r, B) ==
    IF B = {} THEN 0
    ELSE LET b == CHOOSE x \in B : TRUE
         IN inventario[<<b, r>>] + SumaStock(r, B \ {b})

\* stock_red: SUM(i.cantidad) over every warehouse
StockRedSoloVenta(r) == SumaStock(r, {b \in Bodegas : TipoAlmacen[b] = "Venta"})

StockRed(r) == SumaStock(r, Bodegas)

\* venta_red: sales of the last 30 days (CURRENT_DATE) in 'Venta' warehouses
VentaRed30(r) ==
    SumaCantidad({v \in ventas : v.referencia = r
                    /\ TipoAlmacen[v.bodega_codigo] = "Venta"
                    /\ v.fecha >= hoy - 30})

\* ROUND(stock_total_red / venta_diaria_red, 2), hundredths
DiasCoberturaActual(r) ==
    IF VentaRed30(r) > 0 THEN RoundDiv(StockRed(r) * 3000, VentaRed30(r))
    ELSE DIAS_SIN_VENTA

\* GREATEST(ROUND((dias_cobertura_stock + lead_time_a_cedi) * venta_diaria_red
\*                - stock_actual_red, 0), 0)
CantidadCompra(objetivo, lead, venta30, stock) ==
    Max2(RoundDivSigned((objetivo + lead) * venta30 - 30 * stock, 30), 0)

PrioridadCompra(dias_actual, objetivo, lead) ==
    IF dias_actual < lead * 100 THEN "URGENTE"
    ELSE IF dias_actual < (lead + 7) * 100 THEN "ALTA"
    ELSE IF dias_actual < objetivo * 100 THEN "MEDIA"
    ELSE "BAJA"

\* WHERE of analisis and of the final SELECT; a NULL brand parameter makes
\* the comparison NULL and drops the row
EntraEnComprasSinCategoria(r) ==
    LET ma == MarcaDe(r)
    IN /\ VentaRed30(r) > 0
       /\ ma.dias_cobertura_stock # SinValor
       /\ ma.lead_time_a_cedi # SinValor
       /\ DiasCoberturaActual(r) < (ma.dias_cobertura_stock + ma.lead_time_a_cedi) * 100

EntraEnComprasConNulos(r) ==
    LET ma == MarcaDe(r)
    IN /\ VentaRed30(r) > 0
       /\ DiasCoberturaActual(r) <
            (Coalesce(ma.dias_cobertura_stock, COBERTURA_DEFECTO)
               + Coalesce(ma.lead_time_a_cedi, LEAD_TIME_DEFECTO)) * 100
       /\ ma.categoria = "PRINCIPAL"

EntraEnCompras(r) ==
    LET ma == MarcaDe(r)
    IN /\ VentaRed30(r) > 0
       /\ ma.dias_cobertura_stock # SinValor
       /\ ma.lead_time_a_cedi # SinValor
       /\ DiasCoberturaActual(r) < (ma.dias_cobertura_stock + ma.lead_time_a_cedi) * 100
       /\ ma.categoria = "PRINCIPAL"

FilaCompra(r) ==
    LET ma == MarcaDe(r)
    IN [referencia |-> r,
        marca_codigo |-> CodigoMarca(r),
        marca_categoria |-> ma.categoria,
        marca_clasificacion |-> ma.clasificacion,
        stock_actual_red |-> StockRed(r),
        venta_proyectada |-> VentaRed30(r),
        cantidad_sugerida |-> CantidadCompra(ma.dias_cobertura_stock,
                                 ma.lead_time_a_cedi, VentaRed30(r), StockRed(r)),
        dias_cobertura_actual |-> DiasCoberturaActual(r),
        dias_cobertura_objetivo |-> ma.dias_cobertura_stock,
        prioridad |-> PrioridadCompra(DiasCoberturaActual(r),
                                      ma.dias_cobertura_stock, ma.lead_time_a_cedi),
        fecha_generacion |-> FechaGeneracion, estado |-> "PENDIENTE",
        \* not a column: the calculation date of the run that inserted the row
        run_fecha |-> fecha]

\* r['cantidad_sugerida'] > 0 on a fetched row whose cantidad_sugerida is NULL
\* (a brand parameter is NULL): None > 0 raises TypeError
CompraConError ==
    \E r \in Refs :
        /\ EntraEnCompras(r)
        /\ (MarcaDe(r).dias_cobertura_stock = SinValor
             \/ MarcaDe(r).lead_time_a_cedi = SinValor)

\* values = [... for r in recomendaciones if r['cantidad_sugerida'] > 0]
ComprasCalculadas ==
    {c \in {FilaCompra(r) : r \in {x \in Refs : EntraEnCompras(x)}} :
        c.cantidad_sugerida > 0}

\* ------------------------------------------ package/handler.py: get_compras
\* limit = int(params.get('limit', 50))
LIMITE_DEFECTO == 50

\* CEIL(a / b), b > 0
CeilDiv(a, b) == 0 - ((0 - a) \div b)

\* SELECT ... FROM recomendaciones_compra rc WHERE rc.estado = 'PENDIENTE'
\*   [AND rc.prioridad = %s] [AND rc.marca_codigo = %s]
ComprasPendientes(tabla, prioridad, marca_filter) ==
    LET S == {c \in DOMAIN tabla :
                /\ c.estado = "PENDIENTE"
                /\ (prioridad # NULL => c.prioridad = prioridad)
                /\ (marca_filter # NULL => c.marca_codigo = marca_filter)}
    IN [c \in S |-> tabla[c]]

\* LIMIT %s; no reachable table holds more rows than the limit
LimitarBag(B, limit) ==
    IF BagCardinality(B) <= limit THEN B
    ELSE CHOOSE C \in SubBag(B) : BagCardinality(C) = limit

\* stock_red of _compras_live: SUM(cantidad) ... WHERE cantidad > 0
StockRedLive(r) == SumaStock(r, {b \in Bodegas : inventario[<<b, r>>] > 0})

\* venta_red of _compras_live: v.fecha >= date.today() - 30 days, tipo 'Venta'
VentaRedLive(r) ==
    SumaCantidad({v \in ventas : v.referencia = r
                    /\ TipoAlmacen[v.bodega_codigo] = "Venta"
                    /\ v.fecha >= hoy - 30})

\* the CASE of _compras_live, on the unrounded quotient stock / venta_diaria
PrioridadLive(stock, venta30, objetivo, lead) ==
    IF stock = 0 THEN "URGENTE"
    ELSE IF venta30 > 0 /\ stock * 30 < lead * venta30 THEN "URGENTE"
    ELSE IF venta30 > 0 /\ stock * 30 < (lead + 7) * venta30 THEN "ALTA"
    ELSE IF venta30 > 0 /\ stock * 30 < objetivo * venta30 THEN "MEDIA"
    ELSE "BAJA"

\* HAVING SUM(v.cantidad) > 0, the WHERE of the live query, AND m.codigo = %s
EntraEnLive(r, marca_filter) ==
    LET ma == MarcaDe(r)
        objetivo == Coalesce(ma.dias_cobertura_stock, COBERTURA_DEFECTO)
        lead == Coalesce(ma.lead_time_a_cedi, LEAD_TIME_DEFECTO)
    IN /\ VentaRedLive(r) > 0
       /\ StockRedLive(r) * 30 < (objetivo + lead) * VentaRedLive(r)
       /\ (marca_filter # NULL => CodigoMarca(r) = marca_filter)

FilaLive(r) ==
    LET ma == MarcaDe(r)
        objetivo == Coalesce(ma.dias_cobertura_stock, COBERTURA_DEFECTO)
        lead == Coalesce(ma.lead_time_a_cedi, LEAD_TIME_DEFECTO)
    IN [referencia |-> r,
        marca_categoria |-> ma.categoria,
        marca_clasificacion |-> ma.clasificacion,
        stock_actual_red |-> StockRedLive(r),
        venta_proyectada |-> VentaRedLive(r),
        cantidad_sugerida |->
            Max2(CeilDiv((objetivo + lead) * VentaRedLive(r) - 30 * StockRedLive(r), 30), 0),
        \* ROUND(stock / venta_diaria, 1), kept in hundredths
        dias_cobertura_actual |->
            (IF VentaRedLive(r) > 0
             THEN RoundDiv(StockRedLive(r) * 300, VentaRedLive(r)) * 10 ELSE 0),
        dias_cobertura_objetivo |-> objetivo,
        prioridad |-> PrioridadLive(StockRedLive(r), VentaRedLive(r), objetivo, lead),
        estado |-> "CALCULADO"]

\* _compras_live: query with LIMIT, then the priority filter in Python
ComprasLive(limit, prioridad, marca_filter) ==
    LET filas == LimitarBag(SetToBag({FilaLive(r) :
                     r \in {x \in Refs : EntraEnLive(x, marca_filter)}}), limit)
        S == {c \in DOMAIN filas : prioridad # NULL => c.prioridad = prioridad}
    IN [c \in S |-> filas[c]]

\* ------------------------------------------------------------ input domains
CantidadesInv == {0, 2, 20}
CantidadesVenta == {30}
FechasVenta == {70, 100}

\* brand rows used for the whole pipeline
MarcasSistema ==
    {[categoria |-> "PRINCIPAL", clasificacion |-> "A",
      dias_cobertura_stock |-> 30, lead_time_a_cedi |-> 15],
     [categoria |-> "SECUNDARIA", clasificacion |-> "D",
      dias_cobertura_stock |-> 10, lead_time_a_cedi |-> 0],
     [categoria |-> NULL, clasificacion |-> NULL,
      dias_cobertura_stock |-> SinValor, lead_time_a_cedi |-> SinValor]}

\* brand rows used for the single-row check
MarcasFila ==
    [categoria : {"PRINCIPAL", NULL}, clasificacion : {"A", "D", NULL},
     dias_cobertura_stock : {SinValor, 0, 10, 15, 30},
     lead_time_a_cedi : {SinValor, 15}]

\* a 30-day sale so large that one unit of stock lasts under 0.005 days
VentasExtremas == {6001}

\* a stock large enough for 16 days of cover at one unit a day
StocksExtremos == {16}

\* inputs of the single-row check: the stock of one (bodega, referencia) and
\* its sales either all within the last 7 days or spread over the 90 days
Entradas ==
    {e \in [bodega_codigo : {"w1", "c1"}, referencia : Refs,
            fecha_calculo : Fechas, stock : (0..MaxStock) \cup StocksExtremos,
            venta_7d : (0..MaxVenta30) \cup VentasExtremas,
            venta_30d : (0..MaxVenta30) \cup VentasExtremas,
            venta_90d : (0..(MaxVenta30 + 2)) \cup VentasExtremas] :
        \/ e.venta_7d = e.venta_30d /\ e.venta_90d = e.venta_30d
        \/ e.venta_7d = 0 /\ e.venta_90d = e.venta_30d + 2 /\ e.venta_30d <= MaxVenta30}

InventarioVacio == [k \in Bodegas \X Refs |-> 0]

\* p1 may be stocked anywhere, p2 (no brand) only at w2
InventariosPosibles ==
    {i \in [Bodegas \X Refs -> CantidadesInv] :
        /\ \A b \in Bodegas : i[<<b, "p2">>] = 0
        /\ i[<<"w2", "p1">>] # 2 /\ i[<<"c1", "p1">>] # 2}

\* the inventories a history starts from: two units of p1 at the sales floor
\* w1, the CEDI empty
InventariosIniciales ==
    {i \in InventariosPosibles : i[<<"w1", "p1">>] = 2 /\ i[<<"c1", "p1">>] = 0}

VentasPosibles ==
    [doc : {1}, referencia : {"p1"}, bodega_codigo : {"w1"},
     fecha : FechasVenta, cantidad : CantidadesVenta]

TablasVacias ==
    [metricas |-> {}, alertas |-> EmptyBag, traslados |-> EmptyBag,
     compras |-> EmptyBag]

SinCuenta == [metricas |-> 0, alertas |-> 0, traslados |-> 0, compras |-> 0]
SinResultado == [statusCode |-> 0, cuenta |-> SinCuenta, error |-> NULL]
SinRespuesta == [origen |-> NULL, prioridad |-> NULL, marca |-> NULL,
                 filas |-> EmptyBag]

\* query parameters of get_compras
Filtros == {[prioridad |-> NULL, marca |-> NULL],
            [prioridad |-> "URGENTE", marca |-> NULL],
            [prioridad |-> NULL, marca |-> "m1"]}

\* brand rows used for the network check
MarcasRed ==
    {[categoria |-> "PRINCIPAL", clasificacion |-> "A",
      dias_cobertura_stock |-> 30, lead_time_a_cedi |-> 15],
     [categoria |-> "PRINCIPAL", clasificacion |-> "B",
      dias_cobertura_stock |-> 10, lead_time_a_cedi |-> 15],
     [categoria |-> "PRINCIPAL", clasificacion |-> "B",
      dias_cobertura_stock |-> 30, lead_time_a_cedi |-> 0],
     [categoria |-> "SECUNDARIA", clasificacion |-> "D",
      dias_cobertura_stock |-> 10, lead_time_a_cedi |-> 5],
     [categoria |-> "PRINCIPAL", clasificacion |-> "A",
      dias_cobertura_stock |-> SinValor, lead_time_a_cedi |-> 7],
     SinMarca}

CantidadesRed == {0, 1, 2, 12, 50, 8997}

\* inventories of the network check: p1 anywhere, one unit of p2 (no brand)
\* at w2
InventariosRed ==
    {i \in [Bodegas \X Refs -> CantidadesRed] :
        /\ i[<<"w1", "p1">>] \in {0, 1, 12}
        /\ i[<<"w2", "p1">>] \in {0, 2, 50}
        /\ i[<<"c1", "p1">>] \in {0, 8997}
        /\ i[<<"w2", "p2">>] = 1
        /\ i[<<"w1", "p2">>] = 0 /\ i[<<"c1", "p2">>] = 0}

\* sales of the network check, all dated today: at most one document per
\* (product, sales floor), p2 always sold
VentasRed ==
    {V \in SUBSET ([doc : {1}, referencia : {"p1"}, bodega_codigo : {"w1"},
                    fecha : {HoyInicial}, cantidad : {3, 30, 6000}]
                   \cup [doc : {2}, referencia : {"p1"}, bodega_codigo : {"w2"},
                         fecha : {HoyInicial}, cantidad : {30}]
                   \cup [doc : {3}, referencia : {"p2"}, bodega_codigo : {"w2"},
                         fecha : {HoyInicial}, cantidad : {30}]) :
        /\ \A v1, v2 \in V : v1.doc = v2.doc => v1 = v2
        /\ \E v \in V : v.doc = 3}

EntradaFija == [bodega_codigo |-> "w1", referencia |-> "p1",
                fecha_calculo |-> HoyInicial, stock |-> 0,
                venta_7d |-> 0, venta_30d |-> 0, venta_90d |-> 0]

\* --------------------------------------------------------------- the system
Init ==
    /\ hoy = HoyInicial
    /\ marca \in MarcasSistema
    /\ inventario \in InventariosIniciales
    /\ ventas \in {{}} \cup {{v} : v \in {w \in VentasPosibles : w.fecha = HoyInicial}}
    /\ db = TablasVacias
    /\ tx = TablasVacias
    /\ pc = "idle"
    /\ fecha = HoyInicial
    /\ cuenta = SinCuenta
    /\ resultado = SinResultado
    /\ historial = << >>
    /\ nRuns = 0 /\ nCambios = 0 /\ nFallas = 0
    /\ entrada = EntradaFija
    /\ fila = {}
    /\ alertasFila = {}
    /\ pcFila = "inicio"
    /\ respuesta = SinRespuesta

filaVars == <<entrada, fila, alertasFila, pcFila>>

\* the clock moves on between invocations
AvanzarDia ==
    /\ pc = "idle"
    /\ nCambios < MaxCambios
    /\ hoy' = hoy + 1
    /\ nCambios' = nCambios + 1
    /\ historial' = << >>
    /\ UNCHANGED <<marca, inventario, ventas, db, tx, pc, fecha, cuenta,
                   resultado, nRuns, nFallas, filaVars, respuesta>>

\* data collector: upsert_inventario, ON CONFLICT (bodega_codigo, referencia)
UpsertInventario ==
    /\ pc = "idle"
    /\ nCambios < MaxCambios
    /\ \E i \in InventariosPosibles :
         /\ Cardinality({k \in DOMAIN i : i[k] # inventario[k]}) = 1
         /\ inventario' = i
    /\ nCambios' = nCambios + 1
    /\ historial' = << >>
    /\ UNCHANGED <<hoy, marca, ventas, db, tx, pc, fecha, cuenta, resultado,
                   nRuns, nFallas, filaVars, respuesta>>

\* data collector: insert_ventas, one new document dated today or earlier
InsertVentas ==
    /\ pc = "idle"
    /\ nCambios < MaxCambios
    /\ \E v \in VentasPosibles :
         /\ v.fecha <= hoy
         /\ ventas' = ventas \cup {[v EXCEPT !.doc = Cardinality(ventas) + 1]}
    /\ nCambios' = nCambios + 1
    /\ historial' = << >>
    /\ UNCHANGED <<hoy, marca, inventario, db, tx, pc, fecha, cuenta, resultado,
                   nRuns, nFallas, filaVars, respuesta>>

\* handler: fecha_calculo = event.get('fecha', today); get_db_connection()
IniciarHandler ==
    /\ pc = "idle"
    /\ nRuns < MaxRuns
    /\ \E f \in Fechas :
         fecha' = f
    /\ pc' = "metricas"
    /\ tx' = db
    /\ cuenta' = SinCuenta
    /\ nRuns' = nRuns + 1
    /\ UNCHANGED <<hoy, marca, inventario, ventas, db, resultado, historial,
                   nCambios, nFallas, filaVars, respuesta>>

\* calcular_metricas_producto_almacen: query, classification, upsert, commit
CalcularMetricas ==
    /\ pc = "metricas"
    /\ LET values == ResultadosMetricas(fecha)
           nuevo == [tx EXCEPT !.metricas = UpsertMetricas(tx.metricas, values)]
       IN /\ \A f \in values : ~FilaConError(f)
          /\ tx' = nuevo
          /\ db' = nuevo
          /\ cuenta' = [cuenta EXCEPT !.metricas = Cardinality(values)]
    /\ pc' = "alertas"
    /\ UNCHANGED <<hoy, marca, inventario, ventas, fecha, resultado, historial,
                   nRuns, nCambios, nFallas, filaVars, respuesta>>

\* generar_alertas: delete, three inserts, commit
GenerarAlertas ==
    /\ pc = "alertas"
    /\ LET nuevas == AlertasGeneradas(tx.metricas, fecha)
           nuevo == [tx EXCEPT !.alertas =
                        BorrarPendientes(tx.alertas, fecha) (+) SetToBag(nuevas)]
       IN /\ tx' = nuevo
          /\ db' = nuevo
          /\ cuenta' = [cuenta EXCEPT !.alertas = Cardinality(nuevas)]
    /\ pc' = "traslados"
    /\ UNCHANGED <<hoy, marca, inventario, ventas, fecha, resultado, historial,
                   nRuns, nCambios, nFallas, filaVars, respuesta>>

\* generar_recomendaciones_traslado: delete; insert and commit only if values
GenerarTraslados ==
    /\ pc = "traslados"
    /\ LET values == TrasladosCalculados(tx.metricas, fecha)
           nuevo == [tx EXCEPT !.traslados =
                        BorrarPendientes(tx.traslados, fecha) (+) SetToBag(values)]
       IN /\ tx' = nuevo
          /\ db' = IF values # {} THEN nuevo ELSE db
          /\ cuenta' = [cuenta EXCEPT !.traslados = Cardinality(values)]
    /\ pc' = "compras"
    /\ UNCHANGED <<hoy, marca, inventario, ventas, fecha, resultado, historial,
                   nRuns, nCambios, nFallas, filaVars, respuesta>>

\* generar_recomendaciones_compra: delete; insert and commit only if values
GenerarCompras ==
    /\ pc = "compras"
    /\ ~CompraConError
    /\ LET values == ComprasCalculadas
           nuevo == [tx EXCEPT !.compras =
                        BorrarPendientes(tx.compras, fecha) (+) SetToBag(values)]
       IN /\ tx' = nuevo
          /\ db' = IF values # {} THEN nuevo ELSE db
          /\ cuenta' = [cuenta EXCEPT !.compras = Cardinality(values)]
    /\ pc' = "cerrar"
    /\ UNCHANGED <<hoy, marca, inventario, ventas, fecha, resultado, historial,
                   nRuns, nCambios, nFallas, filaVars, respuesta>>

\* conn.close() drops what was not committed; return statusCode 200
Terminar ==
    /\ pc = "cerrar"
    /\ tx' = db
    /\ resultado' = [statusCode |-> 200, cuenta |-> cuenta, error |-> NULL]
    /\ historial' = (IF historial = << >> THEN << >> ELSE <<historial[Len(historial)]>>)
                      \o <<[fecha |-> fecha, tablas |-> db]>>
    /\ pc' = "idle"
    /\ UNCHANGED <<hoy, marca, inventario, ventas, db, fecha, cuenta,
                   nRuns, nCambios, nFallas, filaVars, respuesta>>

\* positions at which a statement of a stage may raise; the alert stage is
\* also followed statement by statement (after its DELETE, after its first
\* and after its second INSERT)
EnEtapa == {"metricas", "alertas", "alertas_borrado", "alertas_stock",
            "alertas_sobre", "traslados", "compras"}

\* except Exception: the connection or a stage raised; statusCode 500.
\* The connection is dropped with its open transaction.
FallaCon200 ==
    /\ pc \in EnEtapa
    /\ nFallas < MaxFallas
    /\ tx' = db
    /\ resultado' = [statusCode |-> 200, cuenta |-> cuenta, error |-> NULL]
    /\ historial' = << >>
    /\ pc' = "idle"
    /\ nFallas' = nFallas + 1
    /\ UNCHANGED <<hoy, marca, inventario, ventas, db, fecha, cuenta,
                   nRuns, nCambios, filaVars, respuesta>>

\* a handler whose connection commits every statement on its own
FallaConAutocommit ==
    /\ pc \in EnEtapa
    /\ nFallas < MaxFallas
    /\ tx' = tx
    /\ db' = tx
    /\ resultado' = [statusCode |-> 500, cuenta |-> SinCuenta, error |-> "str(e)"]
    /\ historial' = << >>
    /\ pc' = "idle"
    /\ nFallas' = nFallas + 1
    /\ UNCHANGED <<hoy, marca, inventario, ventas, fecha, cuenta,
                   nRuns, nCambios, filaVars, respuesta>>

Falla ==
    /\ pc \in EnEtapa
    /\ nFallas < MaxFallas
    /\ tx' = db
    /\ resultado' = [statusCode |-> 500, cuenta |-> SinCuenta, error |-> "str(e)"]
    /\ historial' = << >>
    /\ pc' = "idle"
    /\ nFallas' = nFallas + 1
    /\ UNCHANGED <<hoy, marca, inventario, ventas, db, fecha, cuenta,
                   nRuns, nCambios, filaVars, respuesta>>

\* package/handler.py update_alerta_estado: UPDATE alertas SET estado WHERE id
\* (one of the states a user can set; any of them is just "not PENDIENTE" to
\* the engine)
UpdateAlertaEstado ==
    /\ pc = "idle"
    /\ nCambios < MaxCambios
    /\ \E a \in BagToSet(db.alertas), nuevo_estado \in {"ATENDIDA"} :
         LET tabla == (db.alertas (-) SetToBag({a}))
                        (+) SetToBag({[a EXCEPT !.estado = nuevo_estado]})
         IN /\ db' = [db EXCEPT !.alertas = tabla]
            /\ tx' = db'
    /\ nCambios' = nCambios + 1
    /\ historial' = << >>
    /\ UNCHANGED <<hoy, marca, inventario, ventas, pc, fecha, cuenta, resultado,
                   nRuns, nFallas, filaVars, respuesta>>

\* package/handler.py update_traslado_estado (one of the states a user can set)
UpdateTrasladoEstado ==
    /\ pc = "idle"
    /\ nCambios < MaxCambios
    /\ \E t \in BagToSet(db.traslados), nuevo_estado \in {"APROBADO"} :
         LET tabla == (db.traslados (-) SetToBag({t}))
                        (+) SetToBag({[t EXCEPT !.estado = nuevo_estado]})
         IN /\ db' = [db EXCEPT !.traslados = tabla]
            /\ tx' = db'
    /\ nCambios' = nCambios + 1
    /\ historial' = << >>
    /\ UNCHANGED <<hoy, marca, inventario, ventas, pc, fecha, cuenta, resultado,
                   nRuns, nFallas, filaVars, respuesta>>

\* package/handler.py get_compras: the precomputed rows when at least one is
\* PENDIENTE, otherwise the live calculation
GetCompras ==
    /\ pc = "idle"
    /\ nCambios < MaxCambios
    /\ \E params \in Filtros :
         LET prioridad == params.prioridad
             marca_filter == params.marca
         IN respuesta' =
            IF ComprasPendientes(db.compras, NULL, NULL) # EmptyBag
            THEN [origen |-> "precalculado",
                  prioridad |-> prioridad, marca |-> marca_filter,
                  filas |-> LimitarBag(ComprasPendientes(db.compras, prioridad,
                                                         marca_filter), LIMITE_DEFECTO)]
            ELSE [origen |-> "live",
                  prioridad |-> prioridad, marca |-> marca_filter,
                  filas |-> ComprasLive(LIMITE_DEFECTO, prioridad, marca_filter)]
    /\ nCambios' = nCambios + 1
    /\ UNCHANGED <<hoy, marca, inventario, ventas, db, tx, pc, fecha, cuenta,
                   resultado, historial, nRuns, nFallas, filaVars>>

Next ==
    \/ AvanzarDia
    \/ UpsertInventario
    \/ InsertVentas
    \/ IniciarHandler
    \/ CalcularMetricas
    \/ GenerarAlertas
    \/ GenerarTraslados
    \/ GenerarCompras
    \/ Terminar
    \/ Falla
    \/ UpdateAlertaEstado
    \/ UpdateTrasladoEstado

Spec == Init /\ [][Next]_vars

\* ------------------------------------- the alert stage, statement by statement
\* DELETE FROM alertas WHERE DATE(fecha_generacion) = %s AND estado = 'PENDIENTE'
BorrarAlertas ==
    /\ pc = "alertas"
    /\ tx' = [tx EXCEPT !.alertas = BorrarPendientes(tx.alertas, fecha)]
    /\ pc' = "alertas_borrado"
    /\ UNCHANGED <<hoy, marca, inventario, ventas, db, fecha, cuenta, resultado,
                   historial, nRuns, nCambios, nFallas, filaVars, respuesta>>

\* cur.execute(query_stock_bajo); alertas_stock_bajo = cur.rowcount
InsertarStockBajo ==
    /\ pc = "alertas_borrado"
    /\ LET nuevas == AlertasStockBajo(tx.metricas, fecha)
       IN /\ tx' = [tx EXCEPT !.alertas = tx.alertas (+) SetToBag(nuevas)]
          /\ cuenta' = [cuenta EXCEPT !.alertas = Cardinality(nuevas)]
    /\ pc' = "alertas_stock"
    /\ UNCHANGED <<hoy, marca, inventario, ventas, db, fecha, resultado,
                   historial, nRuns, nCambios, nFallas, filaVars, respuesta>>

\* cur.execute(query_sobreinventario); alertas_sobreinventario = cur.rowcount
InsertarSobreinventario ==
    /\ pc = "alertas_stock"
    /\ LET nuevas == AlertasSobreinventario(tx.metricas, fecha)
       IN /\ tx' = [tx EXCEPT !.alertas = tx.alertas (+) SetToBag(nuevas)]
          /\ cuenta' = [cuenta EXCEPT !.alertas = cuenta.alertas + Cardinality(nuevas)]
    /\ pc' = "alertas_sobre"
    /\ UNCHANGED <<hoy, marca, inventario, ventas, db, fecha, resultado,
                   historial, nRuns, nCambios, nFallas, filaVars, respuesta>>

\* cur.execute(query_baja_rotacion); conn.commit()
InsertarBajaRotacion ==
    /\ pc = "alertas_sobre"
    /\ LET nuevas == AlertasBajaRotacion(tx.metricas, fecha)
           nuevo == [tx EXCEPT !.alertas = tx.alertas (+) SetToBag(nuevas)]
       IN /\ tx' = nuevo
          /\ db' = nuevo
          /\ cuenta' = [cuenta EXCEPT !.alertas = cuenta.alertas + Cardinality(nuevas)]
    /\ pc' = "traslados"
    /\ UNCHANGED <<hoy, marca, inventario, ventas, fecha, resultado, historial,
                   nRuns, nCambios, nFallas, filaVars, respuesta>>

\* the pipeline with the alert stage followed statement by statement
NextAlertas ==
    \/ UpsertInventario
    \/ IniciarHandler
    \/ CalcularMetricas
    \/ BorrarAlertas
    \/ InsertarStockBajo
    \/ InsertarSobreinventario
    \/ InsertarBajaRotacion
    \/ GenerarTraslados
    \/ GenerarCompras
    \/ Terminar
    \/ Falla

SpecAlertas == Init /\ [][NextAlertas]_vars

\* --------------------------------------------------------- network pipeline
\* The four stages and the purchase query of the API over a wide range of
\* network stock, sales and brand parameters, with the inputs held fixed.
InitRed ==
    /\ hoy = HoyInicial
    /\ marca \in MarcasRed
    /\ inventario \in InventariosRed
    /\ ventas \in VentasRed
    /\ db = TablasVacias
    /\ tx = TablasVacias
    /\ pc = "idle"
    /\ fecha = HoyInicial
    /\ cuenta = SinCuenta
    /\ resultado = SinResultado
    /\ historial = << >>
    /\ nRuns = 0 /\ nCambios = 0 /\ nFallas = 0
    /\ entrada = EntradaFija
    /\ fila = {}
    /\ alertasFila = {}
    /\ pcFila = "inicio"
    /\ respuesta = SinRespuesta

NextRed ==
    \/ IniciarHandler
    \/ CalcularMetricas
    \/ GenerarAlertas
    \/ GenerarTraslados
    \/ GenerarCompras
    \/ Terminar
    \/ GetCompras

SpecRed == InitRed /\ [][NextRed]_vars

\* ------------------------------------------------------ single-row pipeline
\* The metric calculator and the alert generator applied to one inventory
\* row, over a wide range of stock, sales and brand parameters.
InitFila ==
    /\ hoy = HoyInicial
    /\ entrada \in Entradas
    /\ marca \in MarcasFila
    /\ (entrada.referencia = "p2" => marca = SinMarca)
    /\ inventario = InventarioVacio
    /\ ventas = {}
    /\ db = TablasVacias
    /\ tx = TablasVacias
    /\ pc = "idle"
    /\ fecha = HoyInicial
    /\ cuenta = SinCuenta
    /\ resultado = SinResultado
    /\ historial = << >>
    /\ nRuns = 0 /\ nCambios = 0 /\ nFallas = 0
    /\ fila = {}
    /\ alertasFila = {}
    /\ pcFila = "inicio"
    /\ respuesta = SinRespuesta

\* ventas_periodo for the row: no sales are joined for a non-'Venta' warehouse
VentaEntrada(v) == IF TipoAlmacen[entrada.bodega_codigo] = "Venta" THEN v ELSE 0

\* the rows the metric query returns for entrada (WHERE i.cantidad > 0)
ResultadosFila ==
    IF entrada.stock > 0
    THEN {FilaMetrica(entrada.fecha_calculo, entrada.bodega_codigo,
                      entrada.referencia, entrada.stock,
                      VentaEntrada(entrada.venta_7d), VentaEntrada(entrada.venta_30d),
                      VentaEntrada(entrada.venta_90d), MarcaDe(entrada.referencia))}
    ELSE {}

\* calcular_metricas_producto_almacen on the single row
CalcularFila ==
    /\ pcFila = "inicio"
    /\ IF \E f \in ResultadosFila : FilaConError(f)
       THEN fila' = {} /\ pcFila' = "error"
       ELSE fila' = ResultadosFila /\ pcFila' = "calculada"
    /\ UNCHANGED <<sistema, marca, entrada, alertasFila>>

\* generar_alertas for HoyInicial on the single row
GenerarAlertasFila ==
    /\ pcFila = "calculada"
    /\ alertasFila' = AlertasGeneradas(fila, HoyInicial)
    /\ pcFila' = "alertada"
    /\ UNCHANGED <<sistema, marca, entrada, fila>>

NextFila == CalcularFila \/ GenerarAlertasFila

SpecFila == InitFila /\ [][NextFila]_vars

\* ================================================================= claims

\* C4: every metric row written with average daily velocity 0 has
\* days_inventory 9999 and rotation 0, and no input makes the calculation
\* raise a division error.
C4_Centinela ==
    /\ pcFila # "error"
    /\ \A f \in fila :
         f.venta_diaria_x30 = 0 =>
            f.dias_inventario = DIAS_SIN_VENTA /\ f.rotacion_mensual = 0

C4_Witness ==
    /\ pcFila = "calculada"
    /\ \E f \in fila : f.venta_diaria_x30 = 0 /\ f.stock_actual > 0
                       /\ marca.dias_cobertura_stock = 0

\* C5: a row with days_inventory exactly 3 is BAJO, not CRITICO, and a row
\* with days_inventory exactly 7 is MEDIO, not BAJO, for every target coverage.
C5_LimitesEstrictos ==
    \A f \in fila :
        /\ f.dias_inventario = UMBRAL_CRITICO * 100 => f.estado_stock = "BAJO"
        /\ f.dias_inventario = UMBRAL_BAJO * 100 => f.estado_stock = "MEDIO"

C5_Witness ==
    /\ pcFila = "calculada"
    /\ \E f \in fila : f.dias_inventario = UMBRAL_BAJO * 100
                       /\ f.dias_cobertura_objetivo = 10

\* C6 as stated: a row whose days_inventory equals its brand's target coverage
\* exactly is NORMAL, for every target coverage value.
C6_Original ==
    \A f \in fila :
        f.dias_inventario = f.dias_cobertura_objetivo * 100
            => f.estado_stock = "NORMAL"

\* C6 amended: a row whose days_inventory equals its target coverage exactly
\* is NORMAL when that target coverage is at least 15 days (below 15 the
\* low-stock classes, which come first in the chain, take the row).
C6_ObjetivoNormal ==
    \A f \in fila :
        (f.dias_inventario = f.dias_cobertura_objetivo * 100
           /\ f.dias_cobertura_objetivo >= UMBRAL_MEDIO)
            => f.estado_stock = "NORMAL"

C6_Witness ==
    /\ pcFila = "calculada"
    /\ \E f \in fila : f.dias_inventario = f.dias_cobertura_objetivo * 100
                       /\ f.dias_cobertura_objetivo = UMBRAL_MEDIO

\* the classification table of the claim, first match wins (dias in hundredths)
TablaClasificacion(dias, objetivo) ==
    IF dias < 300 THEN "CRITICO"
    ELSE IF dias < 700 THEN "BAJO"
    ELSE IF dias < 1500 THEN "MEDIO"
    ELSE IF dias * 10 > objetivo * 100 * 15 THEN "EXCESO"
    ELSE IF dias > objetivo * 100 THEN "SOBRE"
    ELSE "NORMAL"

\* C7: the stored estado_stock of every metric row is the first matching row
\* of the classification table applied to the dias_inventario stored in the
\* same row; in particular every row with stored dias_inventario below 3,
\* including 0, is CRITICO.  (Stated for rows whose target coverage is not 0,
\* where the target the table refers to is unambiguous.)
C7_EstadoSegunTabla ==
    \A f \in fila :
        f.dias_cobertura_objetivo # 0 =>
          /\ f.estado_stock = TablaClasificacion(f.dias_inventario, f.dias_cobertura_objetivo)
          /\ f.dias_inventario < 300 => f.estado_stock = "CRITICO"

\* the stock alerts generated for metric row f
AlertasStockDe(f) ==
    {a \in alertasFila :
        /\ a.tipo_alerta \in {"STOCK_CRITICO", "STOCK_BAJO", "STOCK_MEDIO"}
        /\ a.referencia = f.referencia /\ a.bodega_codigo = f.bodega_codigo}

\* C8: generar_alertas emits exactly one stock alert for every metric row of
\* date D with days_inventory < 15 and velocity > 0 and none for any other
\* row; type and level follow the thresholds 3 and 7 and always correspond.
C8_AlertasStock ==
    pcFila = "alertada" =>
      /\ \A f \in fila :
           IF f.fecha_calculo = HoyInicial /\ f.dias_inventario < 1500
              /\ f.venta_diaria_x30 > 0
           THEN /\ Cardinality(AlertasStockDe(f)) = 1
                /\ \A a \in AlertasStockDe(f) :
                     <<a.tipo_alerta, a.nivel>> =
                        (IF f.dias_inventario < 300 THEN <<"STOCK_CRITICO", "CRITICO">>
                         ELSE IF f.dias_inventario < 700 THEN <<"STOCK_BAJO", "ALTO">>
                         ELSE <<"STOCK_MEDIO", "MEDIO">>)
           ELSE AlertasStockDe(f) = {}
      /\ \A a \in alertasFila :
           a.tipo_alerta \in {"STOCK_CRITICO", "STOCK_BAJO", "STOCK_MEDIO"}
             => \E f \in fila : a \in AlertasStockDe(f)

C8_Witness ==
    /\ pcFila = "alertada"
    /\ \E a \in alertasFila : a.tipo_alerta = "STOCK_BAJO" /\ a.nivel = "ALTO"

\* the BAJA_ROTACION alerts generated for metric row f
AlertasRotacionDe(f) ==
    {a \in alertasFila :
        /\ a.tipo_alerta = "BAJA_ROTACION"
        /\ a.referencia = f.referencia /\ a.bodega_codigo = f.bodega_codigo}

\* C10: every metric row of date D with stock > 0 and (90-day sales < 3 or
\* monthly rotation < 0.5) whose brand classification is not 'D' (another
\* class, or no brand or classification at all) produces exactly one
\* BAJA_ROTACION alert, ALTO when 90-day sales are zero and MEDIO otherwise.
C10_BajaRotacion ==
    pcFila = "alertada" =>
      \A f \in fila :
        (/\ f.fecha_calculo = HoyInicial
         /\ f.stock_actual > 0
         /\ (f.venta_ultimos_90_dias < 3 \/ f.rotacion_mensual < 5000)
         /\ MarcaDe(f.referencia).clasificacion # "D")
        => /\ Cardinality(AlertasRotacionDe(f)) = 1
           /\ \A a \in AlertasRotacionDe(f) :
                a.nivel = (IF f.venta_ultimos_90_dias = 0 THEN "ALTO" ELSE "MEDIO")

\* the SOBREINVENTARIO alerts generated for metric row f
AlertasSobreDe(f) ==
    {a \in alertasFila :
        /\ a.tipo_alerta = "SOBREINVENTARIO"
        /\ a.referencia = f.referencia /\ a.bodega_codigo = f.bodega_codigo}

\* C11: a SOBREINVENTARIO alert is emitted for a metric row of date D exactly
\* when days_inventory > target coverage x 1.5 (target defaulting to 30) and
\* velocity > 0; its level is ALTO exactly when days_inventory exceeds twice
\* the row's maximum stock, otherwise MEDIO.
C11_Sobreinventario ==
    pcFila = "alertada" =>
      /\ \A f \in fila :
           IF /\ f.fecha_calculo = HoyInicial
              /\ f.dias_inventario * 2 > f.dias_cobertura_objetivo * 300
              /\ f.venta_diaria_x30 > 0
           THEN /\ Cardinality(AlertasSobreDe(f)) = 1
                /\ \A a \in AlertasSobreDe(f) :
                     a.nivel = "ALTO" <=> f.dias_inventario > 2 * f.stock_maximo
                /\ \A a \in AlertasSobreDe(f) : a.nivel \in {"ALTO", "MEDIO"}
           ELSE AlertasSobreDe(f) = {}
      /\ \A a \in alertasFila :
           a.tipo_alerta = "SOBREINVENTARIO" => \E f \in fila : a \in AlertasSobreDe(f)

C11_Witness ==
    /\ pcFila = "alertada"
    /\ \E a \in alertasFila : a.tipo_alerta = "SOBREINVENTARIO" /\ a.nivel = "MEDIO"
    /\ marca.dias_cobertura_stock = 10

\* ------------------------------------------------- claims on the pipeline
PendientesDe(tabla, fecha_calculo) ==
    LET S == {a \in DOMAIN tabla :
                a.fecha_generacion = fecha_calculo /\ a.estado = "PENDIENTE"}
    IN [a \in S |-> tabla[a]]

SinFecha(a) == [a EXCEPT !.fecha_generacion = 0]

RECURSIVE SumaCopias(_, _)
SumaCopias(tabla, S) ==
    IF S = {} THEN 0
    ELSE LET a == CHOOSE x \in S : TRUE
         IN tabla[a] + SumaCopias(tabla, S \ {a})

\* a table without its generation timestamps (rows carry no ids)
SinFechas(tabla) ==
    [p \in {SinFecha(a) : a \in DOMAIN tabla} |->
        SumaCopias(tabla, {a \in DOMAIN tabla : SinFecha(a) = p})]

TablasSinFechas(t) ==
    [metricas |-> t.metricas, alertas |-> SinFechas(t.alertas),
     traslados |-> SinFechas(t.traslados), compras |-> SinFechas(t.compras)]

\* C1: with unchanged inputs, invoking the handler for D twice in a row
\* leaves the metric, alert, transfer and purchase tables with the same rows
\* (ignoring ids and timestamps) as after the first invocation, for any D.
C1_Idempotencia ==
    (Len(historial) = 2 /\ historial[1].fecha = historial[2].fecha)
        => TablasSinFechas(historial[2].tablas) = TablasSinFechas(historial[1].tablas)

\* C2, where every run so far was for the wall-clock date D and none
\* raised: after the run
\* has ended, the PENDING transfer and purchase recommendations generated for
\* D are exactly the rows computed by this run; when the run computes none,
\* no pending recommendation of an earlier run for D remains.
C2_PendientesDelRun ==
    (pc = "idle" /\ historial # << >> /\ fecha = hoy /\ nFallas = 0
       /\ \A m \in db.metricas : m.fecha_calculo = hoy) =>
        /\ PendientesDe(db.traslados, fecha)
             = SetToBag(TrasladosCalculados(db.metricas, fecha))
        /\ PendientesDe(db.compras, fecha) = SetToBag(ComprasCalculadas)

\* C3: after generar_alertas completes for D, the PENDING alerts belonging to
\* D are exactly the alerts derived from D's current metric rows, whatever the
\* wall-clock date of the run.
C3_AlertasReemplazadas ==
    pc = "traslados" =>
        PendientesDe(db.alertas, fecha)
          = SetToBag({[a EXCEPT !.fecha_generacion = fecha] :
                        a \in AlertasGeneradas(db.metricas, fecha)})

\* C9: no BAJA_ROTACION alert is ever generated for a metric row whose
\* product's brand classification is 'D'.
C9_SinAlertaClaseD ==
    \A a \in BagToSet(db.alertas) \cup BagToSet(tx.alertas) :
        a.tipo_alerta = "BAJA_ROTACION" => MarcaDe(a.referencia).clasificacion # "D"

C9_Witness ==
    /\ pc = "traslados"
    /\ marca.clasificacion = "D"
    /\ \E m \in db.metricas :
         /\ m.fecha_calculo = fecha /\ m.referencia = "p1"
         /\ m.stock_actual > 0 /\ m.venta_ultimos_90_dias = 0

\* ------------------------------------------ claims on the network pipeline
\* the quantity of the claim for source row s and destination row d (hundredths)
CantidadEsperada(s, d) ==
    Min2(Max2(s.stock_actual * 100 - s.stock_maximo, 0),
         Max2(d.punto_reorden - d.stock_actual * 100, 0))

\* d is a sales floor short of stock, s another warehouse above its maximum
ParValido(s, d) ==
    /\ s.referencia = d.referencia
    /\ s.bodega_codigo # d.bodega_codigo
    /\ TipoAlmacen[d.bodega_codigo] = "Venta"
    /\ d.dias_inventario < 1500 /\ d.venta_diaria_x30 > 0
    /\ s.stock_actual * 100 > s.stock_maximo /\ s.stock_actual > 0
    /\ CantidadEsperada(s, d) > 0

\* C12, for a run on its own calculation date: every transfer recommendation
\* the run leaves for product p from s to d has s # d and quantity
\* min(max(stock_s - max_stock_s, 0), max(reorder_point_d - stock_d, 0)) > 0,
\* with d a sales floor with days_inventory < 15 and velocity > 0 and s a
\* warehouse with stock > max_stock and stock > 0; conversely every such
\* (s, d, p) with a positive minimum yields exactly one recommendation.
C12_TrasladosPorPar ==
    (pc = "compras" /\ fecha = hoy) =>
        LET T == PendientesDe(tx.traslados, fecha)
            M == {m \in tx.metricas : m.fecha_calculo = fecha}
            De(s, d) == {t \in DOMAIN T :
                           /\ t.referencia = d.referencia
                           /\ t.bodega_origen = s.bodega_codigo
                           /\ t.bodega_destino = d.bodega_codigo}
        IN /\ \A t \in DOMAIN T :
                /\ t.bodega_origen # t.bodega_destino
                /\ t.cantidad_sugerida > 0
                /\ \E s, d \in M :
                     /\ ParValido(s, d) /\ t \in De(s, d)
                     /\ t.cantidad_sugerida = CantidadEsperada(s, d)
           /\ \A s, d \in M :
                ParValido(s, d) => SumaCopias(T, De(s, d)) = 1

C12_Witness ==
    /\ pc = "compras" /\ fecha = hoy
    /\ \E t \in DOMAIN tx.traslados :
         t.bodega_origen = "w2" /\ t.bodega_destino = "w1" /\ t.cantidad_sugerida = 5000
    /\ \E t \in DOMAIN tx.traslados :
         t.bodega_origen = "c1" /\ t.bodega_destino = "w1" /\ t.cantidad_sugerida > 5000

\* the priority the claim gives a destination with the given days of
\* inventory (hundredths) and brand
PrioridadDestino(dias, categoria, clasificacion) ==
    IF dias < 300 /\ categoria = "PRINCIPAL" /\ clasificacion = "A" THEN "URGENTE"
    ELSE IF dias < 700 /\ categoria = "PRINCIPAL" THEN "ALTA"
    ELSE IF dias < 1500 THEN "MEDIA"
    ELSE "BAJA"

\* C13: the priority of every transfer recommendation depends only on its
\* destination: URGENTE if destination days_inventory < 3 and category
\* PRINCIPAL and classification A; otherwise ALTA if < 7 and PRINCIPAL;
\* otherwise MEDIA if < 15; otherwise BAJA.  Two recommendations with the
\* same destination and product have the same priority.
C13_PrioridadTraslado ==
    (pc = "compras" /\ fecha = hoy) =>
        LET T == DOMAIN PendientesDe(tx.traslados, fecha)
        IN /\ \A t \in T :
                \E d \in tx.metricas :
                    /\ ClaveMetrica(d) = <<fecha, t.referencia, t.bodega_destino>>
                    /\ t.prioridad =
                         PrioridadDestino(d.dias_inventario,
                                          MarcaDe(t.referencia).categoria,
                                          MarcaDe(t.referencia).clasificacion)
           /\ \A t1, t2 \in T :
                (t1.referencia = t2.referencia /\ t1.bodega_destino = t2.bodega_destino)
                    => t1.prioridad = t2.prioridad

C13_Witness ==
    /\ pc = "compras" /\ fecha = hoy
    /\ \E t1, t2 \in DOMAIN tx.traslados :
         /\ t1.bodega_destino = t2.bodega_destino /\ t1.referencia = t2.referencia
         /\ t1.bodega_origen # t2.bodega_origen
         /\ t1.prioridad = "ALTA" /\ t1.dias_inv_destino < 300

\* network stock of r: the sum over every warehouse, distribution centers
\* included
StockTotalRed(r) ==
    inventario[<<"w1", r>>] + inventario[<<"w2", r>>] + inventario[<<"c1", r>>]

\* network sales of r in the 30 days up to the calculation date
VentaTotalRed(r, fecha_calculo) ==
    SumaCantidad({v \in ventas : v.referencia = r /\ v.fecha >= fecha_calculo - 30
                                  /\ v.fecha <= fecha_calculo})

\* max(round((target + lead) x velocity - network stock), 0)
CantidadSegunFormula(objetivo, lead, venta30, stock) ==
    LET x30 == (objetivo + lead) * venta30 - 30 * stock
    IN IF x30 <= 0 THEN 0 ELSE (2 * x30 + 30) \div 60

\* the pending purchase rows of the table for product r
ComprasDe(tabla, r) == {c \in DOMAIN tabla : c.referencia = r /\ c.estado = "PENDIENTE"}

\* network coverage days as the engine reports them: network stock / velocity
\* to two decimals, in hundredths
CoberturaRed(stock, venta30) == (2 * stock * 3000 + venta30) \div (2 * venta30)

PrioridadSegunTabla(sinStock, cobertura, lead, margen, objetivo) ==
    IF sinStock \/ cobertura < lead THEN "URGENTE"
    ELSE IF cobertura < margen THEN "ALTA"
    ELSE IF cobertura < objetivo THEN "MEDIA"
    ELSE "BAJA"

\* C15: every purchase recommendation, persisted by the Purchase Sizer or
\* computed live, has priority URGENTE if network stock = 0 or coverage <
\* lead time; otherwise ALTA if coverage < lead time + 7; otherwise MEDIA if
\* coverage < target coverage; otherwise BAJA, for every lead time and target
\* coverage, lead time 0 included.  (Persisted rows are judged on their own
\* dias_cobertura_actual, live rows on stock / velocity.)
C15_PrioridadCompra ==
    /\ \A c \in DOMAIN db.compras \cup DOMAIN tx.compras :
         LET lead == MarcaDe(c.referencia).lead_time_a_cedi
         IN c.prioridad =
              PrioridadSegunTabla(c.stock_actual_red = 0, c.dias_cobertura_actual,
                                  lead * 100, (lead + 7) * 100,
                                  c.dias_cobertura_objetivo * 100)
    /\ respuesta.origen = "live" =>
         \A c \in DOMAIN respuesta.filas :
            LET lead == Coalesce(MarcaDe(c.referencia).lead_time_a_cedi,
                                 LEAD_TIME_DEFECTO)
            IN c.prioridad =
                 PrioridadSegunTabla(c.stock_actual_red = 0, c.stock_actual_red * 30,
                                     lead * c.venta_proyectada,
                                     (lead + 7) * c.venta_proyectada,
                                     c.dias_cobertura_objetivo * c.venta_proyectada)

\* products with network sales whose network stock does not cover target +
\* lead days (30 and 15 when the brand gives none), whatever their brand
ProductosEnDeficit ==
    {r \in Refs :
        LET ma == MarcaDe(r)
            dias == Coalesce(ma.dias_cobertura_stock, 30) + Coalesce(ma.lead_time_a_cedi, 15)
        IN /\ VentaTotalRed(r, hoy) > 0
           /\ StockTotalRed(r) * 30 < dias * VentaTotalRed(r, hoy)}

\* C16: every purchase recommendation persisted by the Purchase Sizer belongs
\* to a product whose brand category is PRINCIPAL; get_compras answers with
\* the live variant exactly when no PENDING precomputed recommendation
\* exists, and the live variant returns recommendations for products of any
\* brand category, products without brand included.
C16_PrincipalYLive ==
    [][/\ \A c \in DOMAIN db.compras' \cup DOMAIN tx.compras' :
            /\ c.marca_categoria = "PRINCIPAL"
            /\ MarcaDe(c.referencia).categoria = "PRINCIPAL"
       /\ respuesta' # respuesta =>
            /\ respuesta'.origen \in {"live", "precalculado"}
            /\ respuesta'.origen = "live"
                 <=> ~ \E c \in DOMAIN db.compras : c.estado = "PENDIENTE"
            /\ (respuesta'.origen = "live" /\ respuesta'.prioridad = NULL
                   /\ respuesta'.marca = NULL)
                 => {c.referencia : c \in DOMAIN respuesta'.filas} = ProductosEnDeficit
            /\ respuesta'.origen = "precalculado"
                 => \A c \in DOMAIN respuesta'.filas :
                       c \in DOMAIN db.compras /\ c.estado = "PENDIENTE"]_vars

C16_Witness ==
    /\ respuesta.origen = "live" /\ nRuns = 1 /\ pc = "idle"
    /\ \E c \in DOMAIN respuesta.filas :
         c.referencia = "p2" /\ c.marca_categoria = NULL
    /\ \E c \in DOMAIN respuesta.filas :
         c.referencia = "p1" /\ c.marca_categoria = "SECUNDARIA"

\* ------------------------------------------- further claims on the pipeline
\* the (bodega, referencia) pairs with stock on hand
ParesConStock == {k \in Bodegas \X Refs : inventario[k] > 0}

\* C17: after calcular_metricas_producto_almacen runs for D there is exactly
\* one metric row keyed (D, product, warehouse) for every inventory row with
\* quantity > 0, carrying the values computed in this run (an earlier row
\* with the same key is overwritten), and the returned count is the number
\* of such pairs.
C17_UnaFilaPorPar ==
    pc = "alertas" =>
        /\ \A k \in ParesConStock :
             LET filas == {m \in db.metricas : ClaveMetrica(m) = <<fecha, k[2], k[1]>>}
             IN /\ Cardinality(filas) = 1
                /\ \A m \in filas :
                     /\ m.stock_actual = inventario[k]
                     /\ m \in ResultadosMetricas(fecha)
        /\ cuenta.metricas = Cardinality(ParesConStock)
        /\ tx.metricas = db.metricas

C17_Witness ==
    /\ pc = "alertas"
    /\ \A m \in db.metricas : m.fecha_calculo = fecha
    /\ \E a \in DOMAIN db.alertas, m \in db.metricas :
         /\ a.referencia = m.referencia /\ a.bodega_codigo = m.bodega_codigo
         /\ a.stock_actual # m.stock_actual
         /\ m.stock_actual = inventario[<<m.bodega_codigo, m.referencia>>]

\* sales of (r, b) dated within the dias days up to fecha_calculo
VentasEnVentana(r, b, fecha_calculo, dias) ==
    IF TipoAlmacen[b] = "Venta"
    THEN SumaCantidad({v \in ventas : /\ v.referencia = r /\ v.bodega_codigo = b
                                      /\ v.fecha >= fecha_calculo - dias
                                      /\ v.fecha <= fecha_calculo})
    ELSE 0

\* C18: the 7-, 30- and 90-day sales totals (and the velocity) stored in the
\* metric row written for calculation date D count exactly the sales dated
\* within the trailing window ending at D, whatever the wall-clock date on
\* which the run executes.
C18_VentanasEnD ==
    pc = "alertas" =>
        \A m \in db.metricas :
            (m.fecha_calculo = fecha
               /\ inventario[<<m.bodega_codigo, m.referencia>>] > 0) =>
              /\ m.venta_ultimos_7_dias =
                   VentasEnVentana(m.referencia, m.bodega_codigo, fecha, 7)
              /\ m.venta_ultimos_30_dias =
                   VentasEnVentana(m.referencia, m.bodega_codigo, fecha, 30)
              /\ m.venta_ultimos_90_dias =
                   VentasEnVentana(m.referencia, m.bodega_codigo, fecha, 90)
              /\ m.venta_diaria_x30 = m.venta_ultimos_30_dias

\* the rows of a table inserted by runs for calculation date d
DeFecha(tabla, d) ==
    LET S == {a \in DOMAIN tabla : a.run_fecha = d}
    IN [a \in S |-> tabla[a]]

\* C19: a step of the engine running for calculation date D2 does not add,
\* delete or change any metric row, alert, transfer recommendation or
\* purchase recommendation that belongs to a different calculation date D1,
\* in any order of runs and on any wall-clock date.
C19_OtraFechaIntacta ==
    [][pc # "idle" =>
         \A d \in Fechas \ {fecha} :
            /\ {m \in db.metricas' : m.fecha_calculo = d}
                 = {m \in db.metricas : m.fecha_calculo = d}
            /\ DeFecha(db.alertas', d) = DeFecha(db.alertas, d)
            /\ DeFecha(db.traslados', d) = DeFecha(db.traslados, d)
            /\ DeFecha(db.compras', d) = DeFecha(db.compras, d)]_vars

\* the order in which one invocation moves through its stages
OrdenEtapas ==
    {<<"idle", "metricas">>, <<"metricas", "alertas">>, <<"alertas", "traslados">>,
     <<"traslados", "compras">>, <<"compras", "cerrar">>, <<"cerrar", "idle">>}

\* C20: if the connection attempt or any stage raises, the handler returns a
\* single result with statusCode 500 whose body carries the exception text
\* and no later stage is executed; a statusCode 200 result with the four
\* counts is returned only when all four stages completed in the order
\* metrics, alerts, transfers, purchases.
C20_ResultadoUnico ==
    [][/\ pc' # pc =>
            \/ <<pc, pc'>> \in OrdenEtapas
            \/ /\ pc \in {"metricas", "alertas", "traslados", "compras"}
               /\ pc' = "idle"
               /\ resultado'.statusCode = 500
       /\ resultado' # resultado => (pc # "idle" /\ pc' = "idle")
       /\ (pc # "idle" /\ pc' = "idle") =>
            \/ /\ resultado'.statusCode = 200
               /\ pc = "cerrar"
               /\ resultado'.cuenta = cuenta
               /\ resultado'.error = NULL
            \/ /\ resultado'.statusCode = 500
               /\ pc # "cerrar"
               /\ resultado'.error # NULL
               /\ db' = db
       /\ (pc # "idle" /\ pc' # "idle") => nRuns' = nRuns]_vars

C20_Witness ==
    /\ pc = "idle"
    /\ resultado.statusCode = 500 /\ resultado.error # NULL
    /\ nFallas = 1
    /\ cuenta.metricas > 0 /\ cuenta.alertas > 0 /\ cuenta.traslados = 0
    /\ db.traslados = EmptyBag

\* ------------------------------------------------- claims on failed runs
\* a step in which the stage at pc raises and the handler returns
EtapaFalla == pc # "idle" /\ pc # "cerrar" /\ pc' = "idle" /\ resultado'.statusCode = 500

\* C21, where every run so far was for the wall-clock date D: if a stage
\* of a run for D raises, the
\* output of every earlier stage of the run is persisted and complete after
\* the handler returns: the metrics when the alert stage fails; metrics and
\* alerts when the transfer stage fails; metrics, alerts and the replaced set
\* of transfer recommendations (an empty one included) when the purchase
\* stage fails.
C21_EtapasPreviasPersistidas ==
    [][(EtapaFalla /\ fecha = hoy /\ \A m \in db.metricas : m.fecha_calculo = hoy) =>
         /\ pc \in {"alertas", "traslados", "compras"} =>
              ResultadosMetricas(fecha) \subseteq db'.metricas
         /\ pc \in {"traslados", "compras"} =>
              PendientesDe(db'.alertas, fecha)
                = SetToBag(AlertasGeneradas(db'.metricas, fecha))
         /\ pc = "compras" =>
              PendientesDe(db'.traslados, fecha)
                = SetToBag(TrasladosCalculados(db'.metricas, fecha))]_vars

\* the same without the transfer set of a failed purchase stage
C21_SinTraslados ==
    [][(EtapaFalla /\ fecha = hoy /\ \A m \in db.metricas : m.fecha_calculo = hoy) =>
         /\ pc \in {"alertas", "traslados", "compras"} =>
              ResultadosMetricas(fecha) \subseteq db'.metricas
         /\ pc \in {"traslados", "compras"} =>
              PendientesDe(db'.alertas, fecha)
                = SetToBag(AlertasGeneradas(db'.metricas, fecha))]_vars

\* ------------------------------------------- claims on missing brand data
\* C22: a product with no brand, or a brand with missing policy parameters,
\* never makes any of the four stages raise: its metric rows carry target
\* coverage 30 and lead time 15 in place of the missing parameter (reorder
\* point = velocity x 15 x 1.2, maximum stock = velocity x 30, state
\* classified against 30), and the alert, transfer and purchase stages
\* complete on its rows.
C22_ValoresPorDefecto ==
    /\ pc = "metricas" => \A f \in ResultadosMetricas(fecha) : ~FilaConError(f)
    /\ pc = "traslados" =>
         \A m \in tx.metricas :
            (/\ m.fecha_calculo = fecha
             /\ MarcaDe(m.referencia).dias_cobertura_stock = SinValor
             /\ TipoAlmacen[m.bodega_codigo] = "Venta"
             /\ m.dias_inventario < 1500 /\ m.venta_diaria_x30 > 0)
            => \E a \in DOMAIN tx.alertas :
                  /\ a.referencia = m.referencia /\ a.bodega_codigo = m.bodega_codigo
                  /\ a.tipo_alerta \in {"STOCK_CRITICO", "STOCK_BAJO", "STOCK_MEDIO"}
                  /\ a.estado = "PENDIENTE"
    /\ pc = "compras" => ~CompraConError
    /\ \A m \in db.metricas :
         LET ma == MarcaDe(m.referencia)
         IN /\ ma.dias_cobertura_stock = SinValor =>
                 /\ m.dias_cobertura_objetivo = 30
                 /\ m.stock_maximo = m.venta_diaria_x30 * 100
                 /\ m.estado_stock = TablaClasificacion(m.dias_inventario, 30)
            /\ ma.lead_time_a_cedi = SinValor =>
                 m.punto_reorden = m.venta_diaria_x30 * 60

C22_Witness ==
    /\ pc = "cerrar"
    /\ marca.dias_cobertura_stock = SinValor /\ marca.categoria = "PRINCIPAL"
    /\ VentaRed30("p1") > 0 /\ VentaRed30("p2") > 0
    /\ \E m \in db.metricas : m.referencia = "p2" /\ m.venta_diaria_x30 > 0
    /\ \E a \in DOMAIN db.alertas : a.referencia = "p2"
    /\ \E t \in DOMAIN db.traslados : t.referencia = "p1"

\* ---------------------------------------------- claims on workflow updates
ClaveAlerta(a) == <<a.tipo_alerta, a.referencia, a.bodega_codigo, a.fecha_generacion>>

\* C23: after any sequence of engine runs and alert workflow updates, the
\* alert table holds at most one alert per (alert type, product, warehouse,
\* generation date).
C23_ClaveAlertaUnica ==
    pc = "idle" =>
        \A a \in DOMAIN db.alertas :
            /\ db.alertas[a] = 1
            /\ \A b \in DOMAIN db.alertas : ClaveAlerta(a) = ClaveAlerta(b) => a = b

\* the same where every run was for the wall-clock date on which it ran
C23_RunsEnSuFecha ==
    (pc = "idle" /\ \A a \in DOMAIN db.alertas : a.run_fecha = a.fecha_generacion) =>
        \A a \in DOMAIN db.alertas :
            /\ db.alertas[a] = 1
            /\ \A b \in DOMAIN db.alertas : ClaveAlerta(a) = ClaveAlerta(b) => a = b

\* the same where, in addition, no alert has left the PENDIENTE state
C23_SoloPendientes ==
    (/\ pc = "idle"
     /\ \A a \in DOMAIN db.alertas :
           a.run_fecha = a.fecha_generacion /\ a.estado = "PENDIENTE") =>
        \A a \in DOMAIN db.alertas :
            /\ db.alertas[a] = 1
            /\ \A b \in DOMAIN db.alertas : ClaveAlerta(a) = ClaveAlerta(b) => a = b

\* ------------------------------------------------ claims on stage commits
\* C24: in every run, the writes of each stage (its delete of prior pending
\* rows and its inserts) are committed before the next stage executes its
\* first statement, for all four stages and however many rows the stage
\* produced, zero included: between two stages, and after the last one, the
\* connection holds no uncommitted write.
C24_CommitPorEtapa ==
    pc \in {"alertas", "traslados", "compras", "cerrar"} => tx = db

\* the same for the first two stages only
C24_MetricasYAlertas ==
    pc \in {"alertas", "traslados"} => tx = db

\* ------------------------------------------ claims on the classification
\* C25: a metric row whose velocity is 0 is never classified CRITICO, BAJO,
\* MEDIO, EXCESO or SOBRE: those classes are assigned only to rows with
\* velocity > 0.
C25_ClasesConVelocidad ==
    \A f \in fila :
        f.estado_stock \in {"CRITICO", "BAJO", "MEDIO", "EXCESO", "SOBRE"}
            => f.venta_diaria_x30 > 0

\* the same for the low-stock classes only
C25_SoloStockBajo ==
    \A f \in fila :
        f.estado_stock \in {"CRITICO", "BAJO", "MEDIO"} => f.venta_diaria_x30 > 0

\* -------------------------------------- claims on the transfer matcher
\* the quantity the rows T hold for product p from s to d, 0 without a row
CantidadPar(T, s, d, p) ==
    LET filas == {t \in T : t.referencia = p /\ t.bodega_origen = s
                            /\ t.bodega_destino = d}
    IN IF filas = {} THEN 0 ELSE (CHOOSE t \in filas : TRUE).cantidad_sugerida

\* metric rows the product p could have at warehouse o on date d
FilasVariantes(p, o, d) ==
    {FilaMetrica(d, o, p, k, VentaPeriodo(p, o, 7), VentaPeriodo(p, o, 30),
                 VentaPeriodo(p, o, 90), MarcaDe(p)) : k \in {1, 50}}

\* the metric states that agree with M on every row except those of product
\* p at warehouses other than s and d, which are dropped or replaced
EstadosAlternativos(M, s, d, p) ==
    LET otras == Bodegas \ {s, d}
        fijas == {m \in M : ~(m.referencia = p /\ m.bodega_codigo \in otras)}
        libres == UNION {FilasVariantes(p, o, fecha) : o \in otras}
                    \cup {m \in M : m.referencia = p /\ m.bodega_codigo \in otras}
    IN {fijas \cup X : X \in {Y \in SUBSET libres :
                                \A y1, y2 \in Y : ClaveMetrica(y1) = ClaveMetrica(y2)
                                                    => y1 = y2}}

\* C26: the quantity suggested for a pair (source s, destination d, product
\* p) is determined by s's surplus and d's need alone: the Transfer Matcher
\* run on any metric state that agrees with the current one on s and d but
\* differs in the other sources or destinations of p gives the same quantity
\* for (s, d, p) as the rows the run has just written.
C26_CantidadIndependiente ==
    (pc = "compras" /\ fecha = hoy) =>
        LET T == DOMAIN PendientesDe(tx.traslados, fecha)
            M == {m \in tx.metricas : m.fecha_calculo = fecha}
        IN \A s, d \in Bodegas, p \in Refs :
             s # d =>
               \A M2 \in EstadosAlternativos(M, s, d, p) :
                  CantidadPar(TrasladosCalculados(M2, fecha), s, d, p)
                    = CantidadPar(T, s, d, p)

C26_Witness ==
    /\ pc = "compras" /\ fecha = hoy
    /\ CantidadPar(DOMAIN tx.traslados, "w2", "w1", "p1") > 0
    /\ CantidadPar(DOMAIN tx.traslados, "c1", "w1", "p1") > 0
    /\ \E M2 \in EstadosAlternativos(tx.metricas, "w2", "w1", "p1") :
         /\ \A m \in M2 : m.bodega_codigo # "c1"
         /\ CantidadPar(TrasladosCalculados(M2, fecha), "w2", "w1", "p1") > 0

\* ------------------------------------------- claims on the alert stage
AlertasEnCurso == {"alertas_borrado", "alertas_stock", "alertas_sobre"}

\* C27: if the alert stage fails after its DELETE or after one or two of its
\* three INSERTs but before its commit, the alert table ends exactly as it
\* was before the stage began: until the commit no statement of the stage
\* changes the committed table, and the failure leaves it, and what the
\* next connection sees, unchanged, so that no pending alert of date D is
\* lost and no subset of the alert types is added.
C27_AlertasAtomicas ==
    [][/\ (pc \in AlertasEnCurso \cup {"alertas"} /\ pc' \in AlertasEnCurso)
            => db'.alertas = db.alertas
       /\ (pc \in AlertasEnCurso /\ pc' = "idle")
            => /\ resultado'.statusCode = 500
               /\ db'.alertas = db.alertas
               /\ tx'.alertas = db.alertas]_vars

C27_Witness ==
    /\ pc = "idle" /\ resultado.statusCode = 500 /\ nRuns = 2
    /\ cuenta.alertas > 0 /\ cuenta.traslados = 0
    /\ \E a \in DOMAIN db.alertas, m \in db.metricas :
         /\ a.estado = "PENDIENTE" /\ a.fecha_generacion = fecha
         /\ m.fecha_calculo = fecha
         /\ m.referencia = a.referencia /\ m.bodega_codigo = a.bodega_codigo
         /\ m.stock_actual # a.stock_actual
         /\ a.tipo_alerta = "STOCK_CRITICO"
         /\ m.dias_inventario >= 1500

\* ------------------------------------------------ claims on re-computation
\* C28: after the Metric Calculator has run for date D, the metric rows of
\* D are only those of this latest run: no metric row for D remains for a
\* (product, warehouse) pair whose current stock is not positive.
C28_SoloUltimaCorrida ==
    pc = "alertas" =>
        \A m \in db.metricas :
            m.fecha_calculo = fecha =>
              /\ inventario[<<m.bodega_codigo, m.referencia>>] > 0
              /\ m \in ResultadosMetricas(fecha)

\* the rows of a table that have left the PENDIENTE state
NoPendientes(tabla) ==
    LET S == {a \in DOMAIN tabla : a.estado # "PENDIENTE"}
    IN [a \in S |-> tabla[a]]

\* C29: no step of an engine run deletes or modifies an alert, transfer
\* recommendation or purchase recommendation whose workflow state is no
\* longer PENDIENTE, neither in the committed tables nor in the run's own
\* transaction: each stage's delete touches PENDIENTE rows only.
C29_NoPendientesIntactas ==
    [][pc # "idle" =>
         /\ NoPendientes(db.alertas') = NoPendientes(db.alertas)
         /\ NoPendientes(tx.alertas') = NoPendientes(tx.alertas)
         /\ NoPendientes(db.traslados') = NoPendientes(db.traslados)
         /\ NoPendientes(tx.traslados') = NoPendientes(tx.traslados)
         /\ NoPendientes(db.compras') = NoPendientes(db.compras)
         /\ NoPendientes(tx.compras') = NoPendientes(tx.compras)]_vars

C29_Witness ==
    /\ pc = "compras" /\ nRuns = 2
    /\ \E t \in DOMAIN db.traslados :
         /\ t.estado = "APROBADO" /\ t.fecha_generacion = fecha
         /\ \E u \in DOMAIN db.traslados :
              /\ u.estado = "PENDIENTE"
              /\ u = [t EXCEPT !.estado = "PENDIENTE"]

\* C30: within one run of the Transfer Matcher, no warehouse appears both as
\* the source of one transfer recommendation and as the destination of
\* another for the same product, for every combination of brand target
\* coverage and lead time.
C30_OrigenNoEsDestino ==
    (pc = "compras" /\ fecha = hoy) =>
        LET T == DOMAIN PendientesDe(tx.traslados, fecha)
        IN \A t1, t2 \in T :
             t1.referencia = t2.referencia => t1.bodega_origen # t2.bodega_destino

\* the same for brands whose target coverage is at least 1.2 times the lead
\* time (the defaults 30 and 15 included)
C30_CoberturaAmplia ==
    (/\ pc = "compras" /\ fecha = hoy
     /\ Coalesce(marca.dias_cobertura_stock, COBERTURA_DEFECTO) * 10
          >= Coalesce(marca.lead_time_a_cedi, LEAD_TIME_DEFECTO) * 12) =>
        LET T == DOMAIN PendientesDe(tx.traslados, fecha)
        IN \A t1, t2 \in T :
             t1.referencia = t2.referencia => t1.bodega_origen # t2.bodega_destino

====
